---- MODULE Spec2Model ----
(***************************************************************************)
(* Session management of the TeamSpeak plugin (src/src/index.ts, apply).    *)
(*                                                                         *)
(* The program runs on one JavaScript event loop.  Every async function     *)
(* runs without interruption from one suspension on the remote or on a      *)
(* timer to the next, so one action of this model is one such run: the      *)
(* completion of a remote call or the firing of a timer, followed by all    *)
(* the code that executes until the task awaits the remote or a timer       *)
(* again, or returns.  An await of a value that is already available        *)
(* (reconnect returning false at its guard) gives no remote completion and  *)
(* no timer a chance to run, and is part of the same action.                *)
(*                                                                         *)
(* The remote is free: a connect, a probe (whoami), a query of the         *)
(* operation and a quit each resolve, reject, or stay unanswered.  Timers   *)
(* fire: a call under withTimeout ends at its deadline at the latest.  The  *)
(* call itself is not cancelled: a connect call abandoned at its deadline   *)
(* may still establish a session.  The late answer of an abandoned probe    *)
(* or query reaches no code that writes the handle or the guard.            *)
(*                                                                         *)
(* The text of the ts command's report is a function of what the remote     *)
(* answers; it is modelled apart from the session management (ReportSpec).  *)
(***************************************************************************)
EXTENDS Naturals, FiniteSets, Sequences

\* ---------------------------------------------------------------- bounds
\* Invocations (ready trigger, commands, close/error handlers) per run.
MaxTasks == 2
\* Sessions the program and the remote refer to at one time.
MaxSessions == 2

\* Peers in a presence listing.
MaxClients == 3
\* Channels of the server.
MaxChannels == 2

\* ------------------------------------------------------ program constants
\* config.reconnectAttempts (its default).
ReconnectAttempts == 3
\* executeWithRetry's default maxRetries.
DefaultMaxRetries == 2

Tasks == 1..MaxTasks
Sessions == 1..MaxSessions
\* A session that has been quit, which the program tells from no other.
Gone == MaxSessions + 1
\* instance === null
NoSession == 0

\* Error messages.  The program's own texts (Chinese in the source) are
\* stood for by their English; the remote's errors by one text each.
\* executeWithRetry's reason when checkConnection fails with no retry left.
CannotConnect == "cannot connect to TeamSpeak server"
\* withTimeout's message for the operation.
OperationTimedOut == "operation timed out"
\* withTimeout's message for a connect attempt.
AttemptTimedOut == "Connection attempt timed out"
\* The message of the error TeamSpeak.connect rejects with.
ConnectRefused == "connect refused"
\* The message of the error a query of the operation rejects with.
QueryFailed == "query failed"
\* The message of the TypeError of instance.clientList with instance null.
NullInstance == "Cannot read properties of null"
\* The text the operation of the ts command returns.
Report == "report"
\* A key the returned object does not have.
Absent == "absent"
\* The head of the ts command's failure reply.
FailurePrefix == "failed to get TS info: "

\* The texts the operation of the ts command builds its report from; a
\* text is the sequence of its pieces.
Nobody == "nobody."
Colon == ":\r\n"
Indent == "    "
Comma == ", "
NewLine == "\r\n"

\* The server's channels, each standing for its TeamSpeakChannel object (a
\* lookup of the same cid gives the same object), and their names.
Channels == 1..MaxChannels
ChannelNames == <<"Lobby", "AFK", "Music", "Games">>
\* The nicknames of the peers, which the server keeps distinct.
NickNames == <<"Alice", "Bob", "Carol", "Dave", "Erin">>
Nicks == {NickNames[i] : i \in 1..MaxClients}

\* What executeWithRetry returned: nothing yet, an object, or undefined
\* (falling out of the while loop).
NoResult == [ret |-> "none", success |-> FALSE, data |-> Absent, error |-> Absent]
Success(v) == [ret |-> "object", success |-> TRUE, data |-> v, error |-> Absent]
Failure(m) == [ret |-> "object", success |-> FALSE, data |-> Absent, error |-> m]
Undefined == [ret |-> "undefined", success |-> FALSE, data |-> Absent, error |-> Absent]

VARIABLES
    instance,    \* the session handle, NoSession when null
    connecting,  \* the busy guard
    listening,   \* sessions that have the plugin's listeners attached
    maxRetries,  \* the maxRetries that executeWithRetry is called with
    history,     \* which history the run records
    observed,    \* the invocation whose calls are recorded, if any
    tasks,       \* the invocations: where each one is suspended, its locals
    open,        \* sessions established at the remote and not yet quit
    abandoned,   \* a connect call is in flight whose withTimeout has returned
    timers,      \* withTimeout timers set and neither cleared nor fired
    disposed,    \* the dispose hook has run, and no invocation began since
    faulty,      \* open sessions on which a failure has been observed
    clients,     \* what clientList answers: the peers, nickname and cid
    order,       \* the display order of each channel
    message      \* the text the operation returned, empty before it has

\* A run records one of four histories, none of which the program reads:
\*   "calls"    the calls of the observed invocation (ops, recalls, refused)
\*   "answers"  the late answer of a connect call abandoned at its
\*              deadline, one such call at a time (abandoned, and the
\*              session it establishes in open)
\*   "failures" the session each probe and operation was issued on and the
\*              sessions a failure was observed on (on, faulty)
\*   "dispose"  whether the dispose hook has run and neither the ready
\*              trigger nor a command has come after it (disposed)
\* What a run does not record keeps its initial value; a connect call
\* that a run does not follow stays unanswered.
Histories == {"calls", "answers", "failures", "dispose"}

vars ==
    <<instance, connecting, listening, maxRetries, history, observed, tasks,
      open, abandoned, timers, disposed, faulty, clients, order, message>>

\* A task slot not yet used.  pc: where the task is suspended.
\*   "quit"  reconnect, await instance.quit()
\*   "conn"  reconnect, await withTimeout(TeamSpeak.connect(...))
\*   "delay" reconnect, await the 2000 ms timer
\*   "probe" checkConnection, await withTimeout(instance.whoami())
\*   "op"    executeWithRetry, await withTimeout(operation())
\* site: who called reconnect ("connect", "event", "check", "catch").
\* on: the session the probe or the operation in flight was issued on.
\* retries: executeWithRetry's local.  attempts: reconnect's local; connect
\* and onConnectionClose, which end with their reconnect call, keep it as
\* the number of connect calls their cycle made.
\* ops, recalls, refused: history, recorded for the observed invocation,
\* which is any one of them: the number of times it has called its
\* operation, the number of times it has called reconnect, and whether
\* some reconnect call of it returned at the guard.
IdleTask ==
    [kind |-> "none", pc |-> "idle", site |-> "none", on |-> NoSession,
     attempts |-> 0, retries |-> 0, result |-> NoResult,
     ops |-> 0, recalls |-> 0, refused |-> FALSE]

\* The program state as one value, so that the code's functions are
\* operators from state to state.
Cur ==
    [instance |-> instance, connecting |-> connecting,
     listening |-> listening, tasks |-> tasks,
     open |-> open, abandoned |-> abandoned, timers |-> timers,
     disposed |-> disposed, faulty |-> faulty]

Becomes(st) ==
    /\ instance' = st.instance
    /\ connecting' = st.connecting
    /\ listening' = st.listening
    /\ tasks' = st.tasks
    /\ open' = st.open
    /\ abandoned' = st.abandoned
    /\ timers' = st.timers
    /\ disposed' = st.disposed
    /\ faulty' = st.faulty
    /\ UNCHANGED <<maxRetries, history, observed, clients, order, message>>

\* One more call in the history of t, if t is the observed invocation.
Counted(t, n) == IF t \in observed THEN n + 1 ELSE n
Noted(t, b) == b \/ t \in observed

\* The invocation returns r; its locals are gone.
Finish(st, t, r) ==
    [st EXCEPT !.tasks[t].pc = "done", !.tasks[t].result = r,
               !.tasks[t].site = "none", !.tasks[t].retries = 0]

\* withTimeout is called for task t on session s (none for a connect): its
\* timer is set and t awaits the race at pc.
withTimeoutCalled(st, t, pc, s) ==
    [st EXCEPT !.tasks[t].pc = pc, !.timers = @ + 1,
               !.tasks[t].on = IF history = "failures" THEN s ELSE NoSession]

\* promiseWon without its clearTimeout.
promiseWon_LeavesTimer(st, t) ==
    [st EXCEPT !.tasks[t].on = NoSession]

\* withTimeout, the race won by the promise (its value or its error):
\* clearTimeout, then return or rethrow.
promiseWon(st, t) ==
    [st EXCEPT !.tasks[t].on = NoSession, !.timers = @ - 1]

\* withTimeout, the race won by the timer, which has fired: the error with
\* the caller's message is thrown (clearTimeout finds nothing to clear).
timerWon(st, t) ==
    [st EXCEPT !.tasks[t].on = NoSession, !.timers = @ - 1]

\* instance.removeAllListeners(); instance.quit() on session s.  A session
\* counts as closed from the call of quit on.
quitCalled(st, s) ==
    [st EXCEPT !.listening = @ \ {s}, !.open = @ \ {s}, !.faulty = @ \ {s},
               !.tasks = [t \in Tasks |->
                   IF @[t].on = s THEN [@[t] EXCEPT !.on = Gone] ELSE @[t]]]

\* A failure is observed on session s: a probe or an operation issued on
\* it failed, or it emitted close or error.
failureObserved(st, s) ==
    [st EXCEPT !.faulty =
        IF history = "failures" /\ s \in st.open THEN @ \cup {s} ELSE @]

RECURSIVE executeLoop(_, _)
RECURSIVE reconnectReturn(_, _, _)

\* connectLoop with the loop stopping one attempt early.
connectLoop_OneAttemptShort(st, t) ==
    IF st.tasks[t].attempts < ReconnectAttempts - 1
    THEN withTimeoutCalled([st EXCEPT !.tasks[t].attempts = @ + 1],
                           t, "conn", NoSession)
    ELSE reconnectReturn([st EXCEPT !.connecting = FALSE], t, FALSE)

\* connectLoop with the guard left set on exhaustion.
connectLoop_LeaksGuard(st, t) ==
    IF st.tasks[t].attempts < ReconnectAttempts
    THEN withTimeoutCalled([st EXCEPT !.tasks[t].attempts = @ + 1],
                           t, "conn", NoSession)
    ELSE reconnectReturn(st, t, FALSE)

\* reconnect, the while loop's head: the next attempt, or exhaustion.
connectLoop(st, t) ==
    IF st.tasks[t].attempts < ReconnectAttempts
    THEN withTimeoutCalled([st EXCEPT !.tasks[t].attempts = @ + 1],
                           t, "conn", NoSession)
    ELSE reconnectReturn([st EXCEPT !.connecting = FALSE], t, FALSE)

\* reconnect without the check of the guard.
reconnect_NoGuard(st, t, site) ==
    LET s1 == [st EXCEPT !.tasks[t].site = site,
                         !.tasks[t].recalls = Counted(t, @),
                         !.connecting = TRUE, !.tasks[t].attempts = 0]
    IN  IF s1.instance # NoSession
        THEN [quitCalled(s1, s1.instance) EXCEPT !.tasks[t].pc = "quit"]
        ELSE connectLoop(s1, t)

\* reconnect clearing the guard on every return, the refusal included.
reconnect_RefusalClearsGuard(st, t, site) ==
    LET s0 == [st EXCEPT !.tasks[t].site = site,
                         !.tasks[t].recalls = Counted(t, @)]
    IN  IF s0.connecting
        THEN reconnectReturn([s0 EXCEPT !.tasks[t].refused = Noted(t, @),
                                        !.connecting = FALSE], t, FALSE)
        ELSE LET s1 == [s0 EXCEPT !.connecting = TRUE,
                                  !.tasks[t].attempts = 0]
             IN  IF s1.instance # NoSession
                 THEN [quitCalled(s1, s1.instance)
                           EXCEPT !.tasks[t].pc = "quit"]
                 ELSE connectLoop(s1, t)

\* reconnect, from its call to its first suspension or its return.
reconnect(st, t, site) ==
    LET s0 == [st EXCEPT !.tasks[t].site = site,
                         !.tasks[t].recalls = Counted(t, @)]
    IN  IF s0.connecting
        THEN reconnectReturn([s0 EXCEPT !.tasks[t].refused = Noted(t, @)],
                             t, FALSE)
        ELSE LET s1 == [s0 EXCEPT !.connecting = TRUE,
                                  !.tasks[t].attempts = 0]
             IN  IF s1.instance # NoSession
                 THEN [quitCalled(s1, s1.instance)
                           EXCEPT !.tasks[t].pc = "quit"]
                 ELSE connectLoop(s1, t)

\* The catch block without its check of the retries left.
catchError_AlwaysRetries(st, t, msg) == reconnect(st, t, "catch")

\* The catch block retrying without its call of reconnect.
catchError_NoReconnect(st, t, msg) ==
    IF st.tasks[t].retries >= maxRetries
    THEN Finish(st, t, Failure(msg))
    ELSE executeLoop([st EXCEPT !.tasks[t].retries = @ + 1], t)

\* executeWithRetry's catch block.
catchError(st, t, msg) ==
    IF st.tasks[t].retries >= maxRetries
    THEN Finish(st, t, Failure(msg))
    ELSE reconnect(st, t, "catch")

\* checkReturned with the retries compared by > instead of >=.
checkReturned_OffByOne(st, t, ok) ==
    IF ~ok
    THEN IF st.tasks[t].retries > maxRetries
         THEN Finish(st, t, Failure(CannotConnect))
         ELSE executeLoop([st EXCEPT !.tasks[t].retries = @ + 1], t)
    ELSE LET s1 == [st EXCEPT !.tasks[t].ops = Counted(t, @)]
         IN  IF s1.instance = NoSession
             THEN catchError(s1, t, NullInstance)
             ELSE withTimeoutCalled(s1, t, "op", s1.instance)

\* checkReturned reporting the connect deadline's message.
checkReturned_ReportsAttempt(st, t, ok) ==
    IF ~ok
    THEN IF st.tasks[t].retries >= maxRetries
         THEN Finish(st, t, Failure(AttemptTimedOut))
         ELSE executeLoop([st EXCEPT !.tasks[t].retries = @ + 1], t)
    ELSE LET s1 == [st EXCEPT !.tasks[t].ops = Counted(t, @)]
         IN  IF s1.instance = NoSession
             THEN catchError(s1, t, NullInstance)
             ELSE withTimeoutCalled(s1, t, "op", s1.instance)

\* executeWithRetry after checkConnection returned ok: the retry decision,
\* or the call of the operation.  The command's operation dereferences
\* instance when called, which throws if the handle was cleared meanwhile.
checkReturned(st, t, ok) ==
    IF ~ok
    THEN IF st.tasks[t].retries >= maxRetries
         THEN Finish(st, t, Failure(CannotConnect))
         ELSE executeLoop([st EXCEPT !.tasks[t].retries = @ + 1], t)
    ELSE LET s1 == [st EXCEPT !.tasks[t].ops = Counted(t, @)]
         IN  IF s1.instance = NoSession
             THEN catchError(s1, t, NullInstance)
             ELSE withTimeoutCalled(s1, t, "op", s1.instance)

\* checkConnection, up to its probe.
checkConnection(st, t) ==
    IF st.connecting
    THEN checkReturned(st, t, FALSE)
    ELSE IF st.instance = NoSession
         THEN reconnect(st, t, "check")
         ELSE withTimeoutCalled(st, t, "probe", st.instance)

\* executeWithRetry's while loop head.
executeLoop(st, t) ==
    IF st.tasks[t].retries <= maxRetries
    THEN checkConnection(st, t)
    ELSE Finish(st, t, Undefined)

\* reconnectReturn with the catch block's retries++ left out.
reconnectReturn_CatchKeepsRetries(st, t, ok) ==
    LET s1 == [st EXCEPT !.tasks[t].site = "none", !.tasks[t].attempts = 0]
    IN  CASE st.tasks[t].site = "check" -> checkReturned(s1, t, ok)
          [] st.tasks[t].site = "catch" -> executeLoop(s1, t)
          [] OTHER -> Finish(st, t, NoResult)

\* reconnect returns ok to the place that called it: checkConnection hands
\* it on, the catch block ignores it and retries, connect and
\* onConnectionClose return.
reconnectReturn(st, t, ok) ==
    LET s1 == [st EXCEPT !.tasks[t].site = "none", !.tasks[t].attempts = 0]
    IN  CASE st.tasks[t].site = "check" -> checkReturned(s1, t, ok)
          [] st.tasks[t].site = "catch" ->
                 executeLoop([s1 EXCEPT !.tasks[t].retries = @ + 1], t)
          [] OTHER -> Finish(st, t, NoResult)

\* disconnected without removeAllListeners.
disconnected_KeepsListeners(st) ==
    IF st.instance = NoSession
    THEN st
    ELSE [st EXCEPT !.open = @ \ {st.instance}, !.instance = NoSession]

\* disconnected()
disconnected(st) ==
    IF st.instance = NoSession
    THEN st
    ELSE [quitCalled(st, st.instance) EXCEPT !.instance = NoSession]

\* The ts command's action: what it returns for a result.
CommandReply(r) ==
    IF ~r.success THEN <<FailurePrefix, r.error>> ELSE <<r.data>>

\* ------------------------------------------------- the ts command's report

\* Map.prototype.set on a Map kept as its keys in insertion order and the
\* value of each key.
mapSet(map, k, v) ==
    IF k \in DOMAIN map.vals
    THEN [map EXCEPT !.vals[k] = v]
    ELSE [keys |-> Append(map.keys, k),
          vals |-> [x \in DOMAIN map.vals \cup {k} |->
                       IF x = k THEN v ELSE map.vals[x]]]

\* (channelMap.get(channel) || []).concat([c.nickname])
mapGet(map, k) == IF k \in DOMAIN map.vals THEN map.vals[k] ELSE <<>>

\* The for loop over the clients, from the i-th on.
RECURSIVE groupByChannel(_, _, _)
groupByChannel(cs, i, map) ==
    IF i > Len(cs)
    THEN map
    ELSE groupByChannel(cs, i + 1,
             mapSet(map, cs[i].cid,
                    Append(mapGet(map, cs[i].cid), cs[i].nickname)))

\* One step of the sort: ch put after the channels that do not come after
\* it (a.order - b.order <= 0), sorted being in order already.
RECURSIVE insertSorted(_, _, _)
insertSorted(sorted, ch, ord) ==
    IF sorted = <<>>
    THEN <<ch>>
    ELSE IF ord[Head(sorted)] <= ord[ch]
         THEN <<Head(sorted)>> \o insertSorted(Tail(sorted), ch, ord)
         ELSE <<ch>> \o sorted

\* channelArray.sort with the channels left as Array.from lists them.
sortByOrder_Unsorted(chs, ord) == chs

\* channelArray.sort((a, b) => a.order - b.order): ascending and stable.
RECURSIVE sortByOrder(_, _)
sortByOrder(chs, ord) ==
    IF chs = <<>>
    THEN <<>>
    ELSE insertSorted(sortByOrder(SubSeq(chs, 1, Len(chs) - 1), ord),
                      chs[Len(chs)], ord)

\* Array.prototype.join(", ")
RECURSIVE join(_)
join(names) ==
    IF Len(names) <= 1
    THEN names
    ELSE <<Head(names), Comma>> \o join(Tail(names))

\* The for loop that builds the message, from the i-th channel on.
RECURSIVE buildMessage(_, _, _)
buildMessage(chs, i, map) ==
    IF i > Len(chs)
    THEN <<>>
    ELSE <<ChannelNames[chs[i]], Colon, Indent>> \o join(map.vals[chs[i]])
             \o <<NewLine>> \o buildMessage(chs, i + 1, map)

\* The operation the ts command hands to executeWithRetry, for the answer
\* cs of clientList and the display orders ord.
operation(cs, ord) ==
    IF Len(cs) = 0
    THEN <<Nobody>>
    ELSE LET channelMap == groupByChannel(cs, 1, [keys |-> <<>>, vals |-> <<>>])
             channelArray == sortByOrder(channelMap.keys, ord)
         IN  buildMessage(channelArray, 1, channelMap)

\* ---------------------------------------------------------------- actions

\* Invocations take the task slots in order.
FreeSlot(t) ==
    /\ tasks[t].pc = "idle"
    /\ \A u \in Tasks : u < t => tasks[u].pc # "idle"

\* ctx.on("ready"): connect().  The host signals readiness once.
Ready(t) ==
    /\ FreeSlot(t)
    /\ \A u \in Tasks : tasks[u].kind # "ready"
    /\ Becomes(reconnect([Cur EXCEPT !.tasks[t].kind = "ready",
                                     !.disposed = FALSE], t, "connect"))

\* The ts command: executeWithRetry(operation, maxRetries).
Command(t) ==
    /\ FreeSlot(t)
    /\ Becomes(executeLoop([Cur EXCEPT !.tasks[t].kind = "cmd",
                                       !.disposed = FALSE], t))

\* A session emits "close" or "error": onConnectionClose.
SessionEvent(t, s) ==
    /\ FreeSlot(t)
    /\ s \in listening
    /\ Becomes(reconnect(
           failureObserved([Cur EXCEPT !.tasks[t].kind = "event"], s),
           t, "event"))

\* ctx.on("dispose"): disconnected().
Dispose ==
    /\ Becomes([disconnected(Cur) EXCEPT
                   !.disposed = @ \/ history = "dispose"])

\* QuitSettled without instance = null.
QuitSettled_KeepsHandle(t) ==
    /\ tasks[t].pc = "quit"
    /\ Becomes(connectLoop(Cur, t))

\* reconnect: instance.quit() resolved or rejected; either way instance = null.
QuitSettled(t) ==
    /\ tasks[t].pc = "quit"
    /\ Becomes(connectLoop([Cur EXCEPT !.instance = NoSession], t))

\* The sessions the program or the remote still refers to.
InUse == open \cup ({instance} \ {NoSession})

\* A session the remote establishes is a new one.  Which name it gets is
\* immaterial: the session of an awaited connect call takes the least name
\* not in use, the session of an abandoned one the greatest.
Fresh(s) ==
    /\ s \notin InUse
    /\ \A r \in Sessions \ InUse : s <= r

Stray(s) ==
    /\ s \notin InUse
    /\ \A r \in Sessions \ InUse : s >= r

\* ConnectResolved without connecting = false.
ConnectResolved_KeepsGuard(t, s) ==
    /\ tasks[t].pc = "conn"
    /\ Fresh(s)
    /\ Becomes(reconnectReturn(
           [promiseWon(Cur, t) EXCEPT !.instance = s,
                                      !.listening = @ \cup {s},
                                      !.open = @ \cup {s}], t, TRUE))

\* reconnect: TeamSpeak.connect resolved before the deadline with a new
\* session s; the listeners are attached to it.
ConnectResolved(t, s) ==
    /\ tasks[t].pc = "conn"
    /\ Fresh(s)
    /\ Becomes(reconnectReturn(
           [promiseWon(Cur, t) EXCEPT !.instance = s,
                                      !.listening = @ \cup {s},
                                      !.open = @ \cup {s},
                                      !.connecting = FALSE], t, TRUE))

\* reconnect: the attempt failed (msg is logged only); wait if attempts
\* remain, then back to the loop's head.
connectFailed(st, t, msg) ==
    IF st.tasks[t].attempts < ReconnectAttempts
    THEN [st EXCEPT !.tasks[t].pc = "delay"]
    ELSE connectLoop(st, t)

ConnectRejected(t) ==
    /\ tasks[t].pc = "conn"
    /\ Becomes(connectFailed(promiseWon(Cur, t), t, ConnectRefused))

\* The deadline of a connect attempt: TeamSpeak.connect stays in flight,
\* nothing cancels it.
ConnectTimeout(t) ==
    /\ tasks[t].pc = "conn"
    /\ Becomes(connectFailed(
           [timerWon(Cur, t) EXCEPT
               !.abandoned = @ \/ (history = "answers" /\ open \subseteq listening)],
           t, AttemptTimedOut))

\* The abandoned TeamSpeak.connect resolves: the remote has established a
\* session that Promise.race hands to nobody.
LateConnectResolved(s) ==
    /\ abandoned
    /\ Stray(s)
    /\ Becomes([Cur EXCEPT !.abandoned = FALSE, !.open = @ \cup {s}])

\* The abandoned TeamSpeak.connect rejects.
LateConnectRejected ==
    /\ abandoned
    /\ Becomes([Cur EXCEPT !.abandoned = FALSE])

\* The remote closes a session that nothing listens to.
OrphanClosed(s) ==
    /\ s \in open \ listening
    /\ Becomes([Cur EXCEPT !.open = @ \ {s}, !.faulty = @ \ {s}])

DelayElapsed(t) ==
    /\ tasks[t].pc = "delay"
    /\ Becomes(connectLoop(Cur, t))

ProbeResolved(t) ==
    /\ tasks[t].pc = "probe"
    /\ Becomes(checkReturned(promiseWon(Cur, t), t, TRUE))

ProbeRejected(t) ==
    /\ tasks[t].pc = "probe"
    /\ Becomes(reconnect(
           failureObserved(promiseWon(Cur, t), tasks[t].on), t, "check"))

ProbeTimeout(t) ==
    /\ tasks[t].pc = "probe"
    /\ Becomes(reconnect(
           failureObserved(timerWon(Cur, t), tasks[t].on), t, "check"))

OpResolved(t) ==
    /\ tasks[t].pc = "op"
    /\ Becomes(Finish(promiseWon(Cur, t), t, Success(Report)))

OpRejected(t) ==
    /\ tasks[t].pc = "op"
    /\ Becomes(catchError(
           failureObserved(promiseWon(Cur, t), tasks[t].on), t, QueryFailed))

OpTimeout(t) ==
    /\ tasks[t].pc = "op"
    /\ Becomes(catchError(
           failureObserved(timerWon(Cur, t), tasks[t].on),
           t, OperationTimedOut))

Init ==
    /\ instance = NoSession
    /\ connecting = FALSE
    /\ listening = {}
    /\ maxRetries \in 0..DefaultMaxRetries
    /\ history \in Histories
    /\ observed \in IF history = "calls" THEN {{t} : t \in Tasks} ELSE {{}}
    /\ tasks = [t \in Tasks |-> IdleTask]
    /\ open = {}
    /\ abandoned = FALSE
    /\ timers = 0
    /\ disposed = FALSE
    /\ faulty = {}
    /\ clients = <<>>
    /\ order = [c \in Channels |-> c]
    /\ message = <<>>

Next ==
    \/ \E t \in Tasks : Ready(t)
    \/ \E t \in Tasks : Command(t)
    \/ \E t \in Tasks, s \in Sessions : SessionEvent(t, s)
    \/ Dispose
    \/ \E t \in Tasks : QuitSettled(t)
    \/ \E t \in Tasks, s \in Sessions : ConnectResolved(t, s)
    \/ \E t \in Tasks : ConnectRejected(t)
    \/ \E t \in Tasks : ConnectTimeout(t)
    \/ \E s \in Sessions : LateConnectResolved(s)
    \/ LateConnectRejected
    \/ \E s \in Sessions : OrphanClosed(s)
    \/ \E t \in Tasks : DelayElapsed(t)
    \/ \E t \in Tasks : ProbeResolved(t)
    \/ \E t \in Tasks : ProbeRejected(t)
    \/ \E t \in Tasks : ProbeTimeout(t)
    \/ \E t \in Tasks : OpResolved(t)
    \/ \E t \in Tasks : OpRejected(t)
    \/ \E t \in Tasks : OpTimeout(t)

Spec == Init /\ [][Next]_vars

\* Timers fire: setTimeout's callbacks run once their time has come.  The
\* remote owes no answer: no fairness on its completions.
TimersFire ==
    \A t \in Tasks :
        /\ WF_vars(ConnectTimeout(t))
        /\ WF_vars(DelayElapsed(t))
        /\ WF_vars(ProbeTimeout(t))
        /\ WF_vars(OpTimeout(t))

LiveSpec == Init /\ [][Next]_vars /\ TimersFire

\* The listings the server can answer: at most MaxClients peers, their
\* nicknames distinct, each in a channel of the server.
Listings ==
    UNION {{cs \in [1..n -> [nickname : Nicks, cid : Channels]] :
               \A i, j \in 1..n : i # j => cs[i].nickname # cs[j].nickname}
           : n \in 0..MaxClients}

\* The operation of a ts command returns its text.
OperationReturns ==
    /\ message = <<>>
    /\ message' = operation(clients, order)
    /\ UNCHANGED <<instance, connecting, listening, maxRetries, history,
                   observed, tasks, open, abandoned, timers, disposed,
                   faulty, clients, order>>

\* The operation alone, on any listing and any display orders.
ReportInit ==
    /\ instance = NoSession
    /\ connecting = FALSE
    /\ listening = {}
    /\ maxRetries = DefaultMaxRetries
    /\ history = "calls"
    /\ observed = {}
    /\ tasks = [t \in Tasks |-> IdleTask]
    /\ open = {}
    /\ abandoned = FALSE
    /\ timers = 0
    /\ disposed = FALSE
    /\ faulty = {}
    /\ clients \in Listings
    /\ order \in [Channels -> Channels]
    /\ message = <<>>

ReportNext == OperationReturns

ReportSpec == ReportInit /\ [][ReportNext]_vars

\* The scenario of a remote that refuses the first reconnectAttempts - 1
\* connect calls of a cycle, accepts the next, and then answers every probe
\* and every query, while the host signals ready and issues ts commands.
ScenarioFailures == ReconnectAttempts - 1

ScenarioNext ==
    \/ \E t \in Tasks : Ready(t)
    \/ \E t \in Tasks : Command(t)
    \/ \E t \in Tasks :
          tasks[t].attempts <= ScenarioFailures /\ ConnectRejected(t)
    \/ \E t \in Tasks :
          tasks[t].attempts <= ScenarioFailures /\ ConnectTimeout(t)
    \/ \E t \in Tasks, s \in Sessions :
          tasks[t].attempts = ScenarioFailures + 1 /\ ConnectResolved(t, s)
    \/ \E t \in Tasks : DelayElapsed(t)
    \/ \E t \in Tasks : ProbeResolved(t)
    \/ \E t \in Tasks : OpResolved(t)

ScenarioSpec == Init /\ [][ScenarioNext]_vars

\* ----------------------------------------------------------------- claims

\* The task is inside a reconnection cycle: it has set the guard and has
\* not cleared it yet.
InCycle(t) == tasks[t].pc \in {"quit", "conn", "delay"}
InCycleNext(t) == tasks'[t].pc \in {"quit", "conn", "delay"}
\* The step is a step of task t.
StepOf(t) == tasks'[t] # tasks[t]
Returned(t) == tasks[t].kind = "cmd" /\ tasks[t].pc = "done"

\* C1: at most one invocation of reconnect is between setting the busy guard
\* and clearing it, in every reachable state.
NoConcurrentCycles == Cardinality({t \in Tasks : InCycle(t)}) <= 1

\* C1 witness: the ready trigger's cycle is in flight and another invocation
\* has called reconnect and was refused at the guard.
RefusedDuringCycle ==
    \E t, u \in Tasks :
        /\ t # u
        /\ tasks[t].kind = "ready" /\ InCycle(t)
        /\ tasks[u].refused

\* C2: a call of reconnect made while the guard is set by another invocation
\* changes nothing but the caller: the handle, the guard, the sessions, the
\* listeners and every other invocation stay as they were, and the caller
\* enters no cycle (issues no quit and no connect attempt).
RefusalHasNoEffect ==
    [][\A t \in Tasks :
          (connecting /\ ~InCycle(t) /\ tasks'[t].recalls > tasks[t].recalls)
          => /\ instance' = instance
             /\ connecting'
             /\ listening' = listening
             /\ ~InCycleNext(t)
             /\ \A u \in Tasks \ {t} : tasks'[u] = tasks[u]]_vars

\* C2 witness: a command whose operation failed called reconnect, was
\* refused, and the cycle of the other invocation is still in flight.
RefusedAfterOperation ==
    \E t, u \in Tasks :
        /\ t # u
        /\ InCycle(t) /\ connecting
        /\ tasks[u].kind = "cmd" /\ tasks[u].refused /\ tasks[u].ops > 0

\* C3: a cycle makes its attempts one after the other, the first numbered
\* 1; a failed attempt that is not the last is followed, after the delay,
\* by the next one with the guard still held; the attempt that succeeds, the
\* Nth for any N in 1..reconnectAttempts, ends the cycle at once with the
\* new session as the handle and the guard cleared, and reconnect returns
\* true (checkConnection's caller goes on to run the operation).
SucceedsOnNthAttempt ==
    [][\A t \in Tasks :
          /\ (StepOf(t) /\ tasks'[t].pc = "conn")
             => IF tasks[t].pc = "delay"
                THEN tasks'[t].attempts = tasks[t].attempts + 1
                ELSE tasks'[t].attempts = 1
          /\ (StepOf(t) /\ tasks[t].pc = "conn" /\ instance' = NoSession
                /\ tasks[t].attempts < ReconnectAttempts)
             => /\ tasks'[t].pc = "delay"
                /\ tasks'[t].attempts = tasks[t].attempts
                /\ connecting'
          /\ (StepOf(t) /\ tasks[t].pc = "delay")
             => tasks'[t].pc = "conn" /\ connecting'
          /\ (StepOf(t) /\ tasks[t].pc = "conn" /\ instance' # NoSession)
             => /\ tasks[t].attempts \in 1..ReconnectAttempts
                /\ instance \notin Sessions /\ instance' \in Sessions
                /\ instance' \in listening'
                /\ ~connecting'
                /\ ~InCycleNext(t)
                /\ tasks[t].site = "check" => tasks'[t].pc = "op"]_vars

\* C3 witness: the ready trigger's cycle has succeeded on its last attempt,
\* N = reconnectAttempts.
SucceededOnLastAttempt ==
    \E t \in Tasks :
        /\ tasks[t].kind = "ready" /\ tasks[t].pc = "done"
        /\ tasks[t].attempts = ReconnectAttempts
        /\ instance \in listening /\ ~connecting
        /\ \A u \in Tasks \ {t} : tasks[u].pc = "idle"

\* C4: an invocation of executeWithRetry whose operation keeps failing runs
\* the operation at most maxRetries + 1 times.
OperationAttemptsBounded ==
    \A t \in Tasks :
        ~tasks[t].result.success => tasks[t].ops <= maxRetries + 1

\* C4 witness: a command with the default maxRetries has returned failure
\* after running its operation maxRetries + 1 times.
AllOperationAttemptsUsed ==
    \E t \in Tasks :
        /\ Returned(t) /\ ~tasks[t].result.success
        /\ maxRetries = DefaultMaxRetries
        /\ tasks[t].ops = maxRetries + 1

\* C5 as claimed: an invocation whose operation keeps failing calls
\* reconnect at most maxRetries + 1 times.
ReconnectCallsWithinRetries ==
    \A t \in Tasks :
        (tasks[t].kind = "cmd" /\ ~tasks[t].result.success)
        => tasks[t].recalls <= maxRetries + 1

\* C5 amended: an invocation whose operation keeps failing calls reconnect
\* at most 2 * maxRetries + 1 times: once per pre-flight check and once
\* after each failed operation that is retried.
ReconnectCallsBounded ==
    \A t \in Tasks :
        (tasks[t].kind = "cmd" /\ ~tasks[t].result.success)
        => tasks[t].recalls <= 2 * maxRetries + 1

\* C5 witness: a command with the default maxRetries has returned failure
\* after 2 * maxRetries + 1 calls of reconnect.
AllReconnectCallsUsed ==
    \E t \in Tasks :
        /\ Returned(t) /\ ~tasks[t].result.success
        /\ maxRetries = DefaultMaxRetries
        /\ tasks[t].recalls = 2 * maxRetries + 1

\* C7: what executeWithRetry returns is an object tagged success with a
\* value and no error, or tagged failure with a reason and no value; it
\* never returns undefined.
ResultIsTagged ==
    \A t \in Tasks :
        Returned(t)
        => /\ tasks[t].result.ret = "object"
           /\ \/ /\ tasks[t].result.success
                 /\ tasks[t].result.data # Absent
                 /\ tasks[t].result.error = Absent
              \/ /\ ~tasks[t].result.success
                 /\ tasks[t].result.data = Absent
                 /\ tasks[t].result.error # Absent

\* C7 witness: one command has returned success and another has returned
\* failure after its pre-flight checks used up the retries.
BothTagsReturned ==
    \E t, u \in Tasks :
        /\ Returned(t) /\ tasks[t].result = Success(Report)
        /\ Returned(u) /\ tasks[u].result = Failure(CannotConnect)

\* C6: every invocation of executeWithRetry eventually returns, when timers
\* fire and whatever the remote does.
EveryCommandReturns ==
    \A t \in Tasks : [](tasks[t].kind = "cmd" => <>(tasks[t].pc = "done"))

\* The step is the failure of the last attempt of t's cycle.
Exhausts(t) ==
    /\ StepOf(t)
    /\ tasks[t].pc = "conn"
    /\ tasks[t].attempts = ReconnectAttempts
    /\ instance' = NoSession

\* C8 as claimed: when the failure of a connect attempt exhausts the cycle
\* and the command returns, its reply is the failure message with the
\* reason of that attempt's error.
LastConnectErrorReported ==
    [][\A t \in Tasks :
          (tasks[t].kind = "cmd" /\ tasks'[t].pc = "done")
          => /\ ConnectRejected(t)
                => CommandReply(tasks'[t].result)
                       = <<FailurePrefix, ConnectRefused>>
             /\ ConnectTimeout(t)
                => CommandReply(tasks'[t].result)
                       = <<FailurePrefix, AttemptTimedOut>>]_vars

\* C8 amended: when a cycle is exhausted during a command, the command
\* returns exactly when no retries remain, and its reply is then the
\* failure message with the fixed reason CannotConnect.
ExhaustionReportsCannotConnect ==
    [][\A t \in Tasks :
          (tasks[t].kind = "cmd" /\ Exhausts(t))
          => /\ tasks'[t].pc = "done" <=> tasks[t].retries >= maxRetries
             /\ tasks'[t].pc = "done"
                => /\ tasks'[t].result = Failure(CannotConnect)
                   /\ CommandReply(tasks'[t].result)
                          = <<FailurePrefix, CannotConnect>>]_vars

\* The command found no session at each of its pre-flight checks and every
\* cycle it ran was exhausted.
ExhaustedEveryCycle(t) ==
    /\ Returned(t)
    /\ maxRetries = DefaultMaxRetries
    /\ tasks[t].recalls = maxRetries + 1
    /\ tasks[t].ops = 0
    /\ ~tasks[t].refused

\* C8 witness: a command has returned the CannotConnect failure after
\* exhausting maxRetries + 1 cycles.
CannotConnectAfterExhaustion ==
    \E t \in Tasks :
        /\ ExhaustedEveryCycle(t)
        /\ tasks[t].result = Failure(CannotConnect)
        /\ \A u \in Tasks \ {t} : tasks[u].pc = "idle"

\* C9: the exhaustion of a cycle leaves the handle absent and the guard
\* clear (or set again by the fresh cycle the same command starts at once
\* with its next retry); a command issued while the guard is clear and
\* the handle absent starts a cycle at its first attempt; and a connect that
\* then succeeds ends the cycle with the session held and listened to.
ReconnectableAfterExhaustion ==
    [][\A t \in Tasks :
          /\ Exhausts(t)
             => /\ instance = NoSession
                /\ \/ ~connecting' /\ ~InCycleNext(t)
                   \/ /\ connecting'
                      /\ tasks[t].kind = "cmd"
                      /\ tasks'[t].pc = "conn"
                      /\ tasks'[t].attempts = 1
          /\ (StepOf(t) /\ tasks[t].pc = "idle" /\ tasks'[t].kind = "cmd"
                /\ ~connecting /\ instance = NoSession)
             => /\ connecting'
                /\ tasks'[t].pc = "conn"
                /\ tasks'[t].attempts = 1
          /\ (StepOf(t) /\ tasks[t].pc = "conn" /\ instance' # NoSession)
             => ~connecting' /\ instance' \in listening']_vars

\* C9 witness: after a command that exhausted every cycle it ran, a later
\* command has connected and returned the report.
ConnectedAfterExhaustion ==
    \E t, u \in Tasks :
        /\ t < u
        /\ ExhaustedEveryCycle(t)
        /\ Returned(u) /\ tasks[u].result = Success(Report)
        /\ instance # NoSession /\ ~connecting

\* C10: in the scenario (reconnectAttempts = 3, connect fails twice and
\* then succeeds, the remote answers every query), every ts command that
\* has returned has replied with the report.
ScenarioCommandReplies ==
    \A t \in Tasks :
        Returned(t) => CommandReply(tasks[t].result) = <<Report>>

\* C11: connect() called while a session is held and the guard is clear
\* changes nothing: the same session stays the handle with its listeners,
\* it is not quit, and no connect attempt is issued.
ConnectIsIdempotent ==
    [][\A t \in Tasks :
          (tasks[t].pc = "idle" /\ tasks'[t].kind = "ready"
             /\ instance # NoSession /\ ~connecting)
          => /\ instance' = instance
             /\ listening' = listening
             /\ open' = open
             /\ ~connecting'
             /\ ~InCycleNext(t)]_vars

\* C12: the sessions established at the remote and not yet quit, those of
\* connect calls that answered after their deadline included, are never
\* more than one.
AtMostOneOpenSession == Cardinality(open) <= 1

\* After the step the task awaits a withTimeout race.
InRaceNext(t) == tasks'[t].pc \in {"conn", "probe", "op"}

\* C13: a withTimeout race has the outcome of the side that finishes first:
\* the promise's value (the session, the report) or its error when it
\* settles first, the error with the caller's message when the timer fires
\* first; after every step the timers pending are those of the races still
\* awaited, one each; and the late answer of an abandoned connect call
\* changes no invocation (what it returned included), nor the handle, the
\* guard or the listeners.
DeadlineRaceDecides ==
    [][/\ timers' = Cardinality({t \in Tasks : InRaceNext(t)})
       /\ \A t \in Tasks :
             /\ (tasks[t].pc = "op" /\ StepOf(t))
                => /\ OpResolved(t) => tasks'[t].result = Success(Report)
                   /\ (tasks[t].retries >= maxRetries /\ OpRejected(t))
                      => tasks'[t].result = Failure(QueryFailed)
                   /\ (tasks[t].retries >= maxRetries /\ OpTimeout(t))
                      => tasks'[t].result = Failure(OperationTimedOut)
             /\ (tasks[t].pc = "conn" /\ StepOf(t))
                => /\ (ConnectRejected(t) \/ ConnectTimeout(t))
                      => instance' = NoSession
                   /\ \A s \in Sessions :
                         ConnectResolved(t, s)
                         => instance' = s /\ s \in open'
       /\ (abandoned /\ ~abandoned')
          => /\ (\E s \in Sessions : LateConnectResolved(s))
                \/ LateConnectRejected
             /\ tasks' = tasks
             /\ instance' = instance
             /\ connecting' = connecting
             /\ listening' = listening]_vars

\* C13 witness: a connect call has answered after its deadline, with a
\* session nobody holds, and a command has returned the failure of an
\* operation that ran into its deadline; no timer is pending.
LateAnswerDiscarded ==
    \E t \in Tasks :
        /\ Returned(t) /\ tasks[t].result = Failure(OperationTimedOut)
        /\ open \ listening # {}
        /\ timers = 0

\* C14: the guard is set exactly while some invocation of reconnect is
\* inside its cycle: every invocation that set it has cleared it by the
\* time it returns, whether an attempt succeeded, the attempts were
\* exhausted, or the quit of the teardown failed.
GuardHeldOnlyInCycle == connecting <=> \E t \in Tasks : InCycle(t)

\* C14 witness: the ready trigger's cycle has returned with an attempt
\* succeeded, the cycle of a close or error event has then torn the
\* session down and exhausted its attempts, and the guard is clear.
GuardClearAfterEveryExit ==
    \E t, u \in Tasks :
        /\ tasks[t].kind = "ready" /\ tasks[t].pc = "done"
        /\ tasks[t].attempts >= 1
        /\ tasks[u].kind = "event" /\ tasks[u].pc = "done"
        /\ tasks[u].attempts = ReconnectAttempts
        /\ instance = NoSession
        /\ ~connecting

\* C15: when the operation of a command fails (its query is rejected, it
\* runs into its deadline, or it throws at once because the handle is
\* null) and retries remain, reconnect is called in the same step and the
\* operation is not run again before that; when none remain, the command
\* returns in that step without calling reconnect, and its failure reason
\* is the message of this last error.
OperationFailureHandled ==
    [][\A t \in Tasks :
          LET thrown == /\ tasks[t].pc = "probe" /\ instance = NoSession
                        /\ ProbeResolved(t)
              failed == \/ /\ tasks[t].pc = "op" /\ StepOf(t)
                           /\ OpRejected(t) \/ OpTimeout(t)
                        \/ thrown
          IN  /\ (failed /\ tasks[t].retries < maxRetries)
                 => /\ tasks'[t].recalls = Counted(t, tasks[t].recalls)
                    /\ tasks'[t].pc # "op"
                    /\ \/ InCycleNext(t) /\ tasks'[t].site = "catch"
                       \/ connecting /\ tasks'[t].refused = Noted(t, FALSE)
              /\ (failed /\ tasks[t].retries >= maxRetries)
                 => /\ tasks'[t].pc = "done"
                    /\ tasks'[t].recalls = tasks[t].recalls
                    /\ ~tasks'[t].result.success
                    /\ OpRejected(t) => tasks'[t].result.error = QueryFailed
                    /\ OpTimeout(t)
                       => tasks'[t].result.error = OperationTimedOut
                    /\ thrown => tasks'[t].result.error = NullInstance]_vars

\* C15 witness: a command with the default maxRetries, whose probes all
\* passed, has run its operation maxRetries + 1 times, called reconnect
\* after each failure but the last, and returned the last error's message.
RetriedAfterEachFailure ==
    \E t \in Tasks :
        /\ Returned(t) /\ tasks[t].result = Failure(QueryFailed)
        /\ maxRetries = DefaultMaxRetries
        /\ tasks[t].ops = maxRetries + 1
        /\ tasks[t].recalls = maxRetries

\* The step leaves every invocation as it was, but for the session its
\* probe or operation is recorded to run on.
TasksUntouched ==
    \A t \in Tasks : [tasks'[t] EXCEPT !.on = tasks[t].on] = tasks[t]

\* C16: the dispose hook run while a session is held leaves that session
\* without listeners, quit, and the handle null; run while the handle is
\* null it changes neither the handle nor the listeners nor the sessions;
\* in both cases it changes neither the guard nor any invocation.  A close
\* or error event starts a cycle only when it comes from the session that
\* is the handle and has not been quit, so the close of a session torn
\* down starts none.
TeardownReleasesSession ==
    [][/\ Dispose
          => /\ instance' = NoSession
             /\ connecting' = connecting
             /\ TasksUntouched
             /\ IF instance # NoSession
                THEN /\ listening' = listening \ {instance}
                     /\ open' = open \ {instance}
                ELSE listening' = listening /\ open' = open
       /\ \A t \in Tasks, s \in Sessions :
             SessionEvent(t, s) => s = instance /\ s \in open]_vars

\* C16 witness: the dispose hook has run while a command awaited its
\* operation on the session held: the handle is null, no session is open
\* or listened to, and no other invocation has run.
TornDownByDispose ==
    \E t \in Tasks :
        /\ disposed
        /\ tasks[t].pc = "op"
        /\ \A u \in Tasks \ {t} : tasks[u].pc = "idle"
        /\ instance = NoSession /\ open = {} /\ listening = {}
        /\ ~connecting

\* C17: a close or error event comes from the session that is the handle,
\* with the guard clear, and its handler starts a cycle at once: the guard
\* is set, the session has lost its listeners and is quit, and the handler
\* awaits that quit; a connect attempt is issued only with the handle null
\* and no session listened to; the handler returns when its cycle is
\* exhausted, without starting another; and only the session that is the
\* handle is ever listened to, so a session torn down or replaced starts no
\* cycle.
EventStartsOneCycle ==
    [][/\ \A t \in Tasks, s \in Sessions :
             SessionEvent(t, s)
             => /\ s = instance /\ ~connecting
                /\ connecting'
                /\ tasks'[t].pc = "quit"
                /\ s \notin listening' /\ s \notin open'
       /\ \A t \in Tasks :
             /\ (StepOf(t) /\ tasks'[t].pc = "conn")
                => instance' = NoSession /\ listening' = {}
             /\ (tasks[t].kind = "event" /\ Exhausts(t))
                => tasks'[t].pc = "done" /\ ~connecting'
             /\ (tasks[t].kind = "event" /\ tasks[t].pc = "done")
                => tasks'[t] = tasks[t]
       /\ listening' \subseteq open' \cap {instance'}]_vars

\* C17 witness: the handler of an event of the session the ready trigger
\* had established has torn it down and connected again on the last
\* attempt; the new session is the handle and is listened to.
ReplacedAfterEvent ==
    \E t, u \in Tasks :
        /\ tasks[t].kind = "ready" /\ tasks[t].pc = "done"
        /\ tasks[u].kind = "event" /\ tasks[u].pc = "done"
        /\ tasks[u].attempts = ReconnectAttempts
        /\ instance # NoSession /\ listening = {instance}
        /\ ~connecting

\* The channels that have a peer in the listing, and the nicknames of the
\* peers of channel c, as listed.
Present == {clients[i].cid : i \in 1..Len(clients)}
InChannel(c) ==
    LET Here(x) == x.cid = c
        peers == SelectSeq(clients, Here)
    IN  [i \in 1..Len(peers) |-> peers[i].nickname]

\* The ways of writing the channels of S one after the other, each once.
Arrangements(S) ==
    {chs \in [1..Cardinality(S) -> S] :
        \A i, j \in 1..Cardinality(S) : i # j => chs[i] # chs[j]}

\* The text of the channels chs from the i-th on: for each its name, then
\* the indented comma-joined nicknames of its peers.
RECURSIVE Blocks(_, _)
Blocks(chs, i) ==
    IF i > Len(chs)
    THEN <<>>
    ELSE <<ChannelNames[chs[i]], Colon, Indent>> \o join(InChannel(chs[i]))
             \o <<NewLine>> \o Blocks(chs, i + 1)

\* C18: the text the operation returns for a listing with peers is, for
\* some way of writing the channels that have a peer, each once and in
\* ascending display order, the name of each channel followed by the
\* comma-joined nicknames of exactly its peers; for the empty listing it is
\* exactly the nobody-is-here text.
ReportListsChannels ==
    message # <<>>
    => IF clients = <<>>
       THEN message = <<Nobody>>
       ELSE \E chs \in Arrangements(Present) :
               /\ \A i, j \in 1..Len(chs) :
                     i < j => order[chs[i]] <= order[chs[j]]
               /\ message = Blocks(chs, 1)

\* C18 witness: the listing names a peer of the second channel before two
\* peers of the first, which displays first, and the report gives the first
\* channel with its two peers and then the second.
ReportInDisplayOrder ==
    /\ order[1] < order[2]
    /\ clients = <<[nickname |-> "Carol", cid |-> 2],
                   [nickname |-> "Alice", cid |-> 1],
                   [nickname |-> "Bob", cid |-> 1]>>
    /\ message = <<"Lobby", Colon, Indent, "Alice", Comma, "Bob", NewLine,
                   "AFK", Colon, Indent, "Carol", NewLine>>

\* C19: from the run of the dispose hook on, and until the ready trigger
\* or a command comes again, the handle is null and no session is open.
DisposedStaysAbsent == disposed => instance = NoSession /\ open = {}

\* C20: when a cycle not started by the ready trigger tears the handle's
\* session down, a failure has been observed on that very session: earlier,
\* or in this step as the close or error event it delivered, or as the
\* failure of a probe or an operation that was issued on it.
TornDownOnlyAfterFailure ==
    [][history = "failures"
       => \A t \in Tasks :
             (tasks[t].pc # "quit" /\ tasks'[t].pc = "quit"
                /\ tasks'[t].kind # "ready")
             => \/ instance \in faulty
                \/ SessionEvent(t, instance)
                \/ /\ tasks[t].on = instance
                   /\ \/ ProbeRejected(t) \/ ProbeTimeout(t)
                      \/ OpRejected(t) \/ OpTimeout(t)]_vars

====
